---- MODULE Spec2Model ----
(***************************************************************************)
(* Model of the numerical utilities of                                     *)
(* Networks/Neuro_Glia_network/plot_NG_network.py:                         *)
(*   smoothing_b, neurons_firing, variance, blocking.                      *)
(*                                                                         *)
(* numpy float64 values are modelled as exact fractions n/d in lowest      *)
(* terms.  A zero denominator stands for the IEEE results of a division    *)
(* by zero: 0/0 is nan, 1/0 is inf, -1/0 is -inf.  Rounding error of the   *)
(* floating-point format is not modelled.                                  *)
(*                                                                         *)
(* Each function has its own specification (SpecVariance, SpecBlocking,    *)
(* SpecSmoothing, SpecFiring): the initial states draw the arguments of    *)
(* one call, the actions are the steps of the function's body.             *)
(***************************************************************************)
EXTENDS Integers, Sequences, FiniteSets, TLC

\* Bounds of the model.
MaxLen == 4        \* longest input sequence x
MaxVal == 2        \* input samples are the integers 0..MaxVal
MaxK == 3          \* largest block count k
MaxWidth == 5      \* smoothing_b: width is 0..MaxWidth time units
MaxDdt == 2        \* smoothing_b: ddt is 1..MaxDdt time units
MaxSpikes == 3     \* neurons_firing: longest spike train
MaxTime == 2       \* neurons_firing: times are 0..MaxTime time units
MaxNeuron == 1     \* neurons_firing: neuron indices are 0..MaxNeuron
MaxDeepLen == 6    \* blocking: longest sequence of two-valued samples

VARIABLES
    pc,              \* position in the function being executed
    args,            \* the arguments of the call, as the caller passed them
    mem,             \* the caller's arrays (the objects the array arguments
                     \* refer to), with the contents they have now
    ret,             \* the returned value (NoValue until the return)
    err,             \* the exception that left the function ("none" if none)
    x,               \* blocking: the local x (lines 157, 176)
    time,            \* blocking: the loop variable of line 160
    variances_list,  \* blocking: the list of line 159
    x_block,         \* blocking: the last blocked sequence (line 173)
    window,          \* smoothing_b: the kernel built at lines 59 / 68
    width_dt,        \* smoothing_b: lines 56 / 63
    info,            \* smoothing_b: whether logger.info was called (line 66)
    indeces,         \* neurons_firing: line 105
    neurons_fr       \* neurons_firing: line 108

vars == <<pc, args, mem, ret, err, x, time, variances_list, x_block,
          window, width_dt, info, indeces, neurons_fr>>

NoValue == [none |-> TRUE]

-----------------------------------------------------------------------------
(* float64 arithmetic *)

Abs(i) == IF i < 0 THEN -i ELSE i

Sign(i) == IF i < 0 THEN -1 ELSE IF i = 0 THEN 0 ELSE 1

RECURSIVE GCD(_, _)
GCD(a, b) == IF b = 0 THEN a ELSE GCD(b, a % b)

\* The float n/d; d = 0 gives nan (n = 0) or +-inf.
Rat(n, d) ==
    IF d = 0 THEN [n |-> Sign(n), d |-> 0]
    ELSE LET g == GCD(Abs(n), Abs(d))
         IN [n |-> Sign(d) * (n \div g), d |-> Abs(d) \div g]

FromInt(i) == Rat(i, 1)

NaN == Rat(0, 0)

IsNaN(a) == a = NaN

Add(a, b) ==
    IF a.d = 0 /\ b.d = 0 THEN (IF a.n = b.n THEN a ELSE NaN)
    ELSE IF a.d = 0 THEN a
    ELSE IF b.d = 0 THEN b
    ELSE Rat(a.n * b.d + b.n * a.d, a.d * b.d)

Neg(a) == [n |-> -a.n, d |-> a.d]

Sub(a, b) == Add(a, Neg(b))

Mul(a, b) == Rat(a.n * b.n, a.d * b.d)

\* An exception raised in place of a value.
Exc(name) == [exc |-> name]

IsExc(v) == "exc" \in DOMAIN v

\* Python's float division, which raises on a zero divisor.
py_divide(a, b) ==
    IF b.n = 0 /\ b.d # 0 THEN Exc("ZeroDivisionError")
    ELSE Rat(a.n * b.d * Sign(b.n), a.d * Abs(b.n))

\* numpy's division of a float64 by a number: a zero divisor gives nan or
\* inf (with a RuntimeWarning), never an exception.
true_divide(a, b) ==
    IF b.n < 0 THEN Rat(-(a.n * b.d), a.d * (-b.n))
    ELSE Rat(a.n * b.d, a.d * b.n)

RECURSIVE SumFrom(_, _)
SumFrom(s, i) == IF i > Len(s) THEN FromInt(0) ELSE Add(s[i], SumFrom(s, i + 1))

\* ndarray.sum(): the sum of no element is 0.0.
np_sum(s) == SumFrom(s, 1)

\* np.mean: the sum over the length; nan for the empty array.
np_mean(s) == true_divide(np_sum(s), FromInt(Len(s)))

\* np.array(x): a new array holding the values of x.
np_array(s) == [i \in 1..Len(s) |-> s[i]]

SeqsUpTo(S, n) == UNION {[1..m -> S] : m \in 0..n}

Samples == {FromInt(v) : v \in 0..MaxVal}

-----------------------------------------------------------------------------
(* variance, lines 116-137 *)

\* The sample variance, sum/(N-1): what the function would return without
\* the second factor N.
variance_plain(arr) ==
    LET N == Len(arr)
        mean == np_mean(arr)
        var == [i \in 1..N |-> Mul(Sub(arr[i], mean), Sub(arr[i], mean))]
    IN  true_divide(np_sum(var), FromInt(N - 1))

\* variance with Python's division: it raises for N < 2.
variance_raising(arr) ==
    LET N == Len(arr)
        mean == np_mean(arr)
        var == [i \in 1..N |-> Mul(Sub(arr[i], mean), Sub(arr[i], mean))]
    IN  py_divide(np_sum(var), FromInt(N * (N - 1)))

variance(arr) ==
    LET N == Len(arr)
        mean == np_mean(arr)
        var == [i \in 1..N |-> Mul(Sub(arr[i], mean), Sub(arr[i], mean))]
    IN  true_divide(np_sum(var), FromInt(N * (N - 1)))

\* The array arguments of a call: x, or t_spikes and neurons_i.
passed_arrays(a) ==
    [f \in DOMAIN a \cap {"x", "t_spikes", "neurons_i"} |-> a[f]]

\* np.array(x) builds a new array and leaves x as it is.
after_np_array(a) == a

Idle ==
    /\ mem = passed_arrays(args)
    /\ ret = NoValue /\ err = "none"
    /\ x = <<>> /\ time = 0 /\ variances_list = <<>> /\ x_block = <<>>
    /\ window = <<>> /\ width_dt = 0 /\ info = FALSE
    /\ indeces = <<>> /\ neurons_fr = <<>>

InitVariance ==
    /\ pc = "variance"
    /\ args \in {[x |-> s] : s \in SeqsUpTo(Samples, MaxLen)}
    /\ Idle

\* The whole body: x = np.array(x) ... return var.
VarianceCall ==
    /\ pc = "variance"
    /\ LET var == variance(np_array(mem.x))
       IN  IF IsExc(var)
           THEN pc' = "raised" /\ err' = var.exc /\ ret' = ret
           ELSE pc' = "returned" /\ ret' = var /\ err' = err
    /\ mem' = [mem EXCEPT !.x = after_np_array(mem.x)]
    /\ UNCHANGED <<args, x, time, variances_list, x_block, window, width_dt,
                   info, indeces, neurons_fr>>

NextVariance == VarianceCall

SpecVariance == InitVariance /\ [][NextVariance]_vars

-----------------------------------------------------------------------------
(* blocking, lines 139-178 *)

\* Lines 161-163: the length, less one when it is odd.
even_length(N) == IF N % 2 # 0 THEN N - 1 ELSE N

\* np.arange(N): 0, 1, ..., N-1.
np_arange(N) == [i \in 1..N |-> i - 1]

\* arr[idx] for an integer index array idx (zero-based positions).
take(arr, idx) == [i \in 1..Len(idx) |-> arr[idx[i] + 1]]

\* A blocking that averages the first half with the second half instead of
\* neighbouring samples.
blocked_halves(arr) ==
    LET N == even_length(Len(arr))
        index == np_arange(N)
        odd == SelectSeq(index, LAMBDA v : v < N \div 2)
        even == SelectSeq(index, LAMBDA v : v >= N \div 2)
        x1 == take(arr, odd)
        x2 == take(arr, even)
    IN  [i \in 1..Len(x1) |-> true_divide(Add(x1[i], x2[i]), FromInt(2))]

\* A blocking that drops the first sample of an odd-length sequence instead
\* of the last.
blocked_drop_first(arr) ==
    LET N == even_length(Len(arr))
        index == [i \in 1..N |-> i - 1 + (Len(arr) - N)]
        odd == SelectSeq(index, LAMBDA v : (v - (Len(arr) - N)) % 2 = 0)
        even == SelectSeq(index, LAMBDA v : (v - (Len(arr) - N)) % 2 # 0)
        x1 == take(arr, odd)
        x2 == take(arr, even)
    IN  [i \in 1..Len(x1) |-> true_divide(Add(x1[i], x2[i]), FromInt(2))]

\* Lines 161-173: x_block computed from the current x.
blocked(arr) ==
    LET N == even_length(Len(arr))
        index == np_arange(N)
        odd == SelectSeq(index, LAMBDA v : v % 2 = 0)
        even == SelectSeq(index, LAMBDA v : v % 2 # 0)
        x1 == take(arr, odd)
        x2 == take(arr, even)
    IN  [i \in 1..Len(x1) |-> true_divide(Add(x1[i], x2[i]), FromInt(2))]

\* An append that leaves out the values that are not numbers.
list_append_valid(l, v) == IF IsNaN(v) THEN l ELSE Append(l, v)

\* Line 175: variances_list.append(var_block).
list_append(l, v) == Append(l, v)

\* An assignment that overwrites the array the caller passed.
assign_in_place(m, v) == [m EXCEPT !.x = v]

\* Line 176, x = x_block, seen from the caller: the assignment binds the
\* local name x; no array is written.
assign_local(m, v) == m

\* A loop that forgets to replace x.
rebind_keep(old, new) == old

\* Line 176: x = x_block.
rebind(old, new) == new

InitBlocking ==
    /\ pc = "blocking"
    /\ args \in {[x |-> s, k |-> kk] :
                    s \in SeqsUpTo(Samples, MaxLen), kk \in 0..MaxK}
    /\ Idle

\* Lines 157-159: x = np.array(x); variances_list = [].
BlockingEnter ==
    /\ pc = "blocking"
    /\ x' = np_array(mem.x)
    /\ mem' = [mem EXCEPT !.x = after_np_array(mem.x)]
    /\ variances_list' = <<>>
    /\ time' = 0
    /\ pc' = "loop"
    /\ UNCHANGED <<args, ret, err, x_block, window, width_dt, info, indeces,
                   neurons_fr>>

\* Lines 160-176: one iteration of "for time in range(k)".
BlockingIter ==
    /\ pc = "loop"
    /\ time < args.k
    /\ LET xb == blocked(x)
           var_block == variance(xb)
       IN  IF IsExc(var_block)
           THEN /\ pc' = "raised"
                /\ err' = var_block.exc
                /\ x_block' = xb
                /\ UNCHANGED <<mem, x, time, variances_list>>
           ELSE /\ x_block' = xb
                /\ variances_list' = list_append(variances_list, var_block)
                /\ x' = rebind(x, xb)
                /\ mem' = assign_local(mem, xb)
                /\ time' = time + 1
                /\ UNCHANGED <<pc, err>>
    /\ UNCHANGED <<args, ret, window, width_dt, info, indeces, neurons_fr>>

\* Line 178: return variances_list, once range(k) is exhausted.
BlockingReturn ==
    /\ pc = "loop"
    /\ time >= args.k
    /\ ret' = variances_list
    /\ pc' = "returned"
    /\ UNCHANGED <<args, mem, err, x, time, variances_list, x_block, window,
                   width_dt, info, indeces, neurons_fr>>

NextBlocking == BlockingEnter \/ BlockingIter \/ BlockingReturn

SpecBlocking == InitBlocking /\ [][NextBlocking]_vars

\* blocking on longer sequences, of samples 0 and 1, so that a sequence is
\* halved several times before it is exhausted.
TwoSamples == {FromInt(0), FromInt(1)}

InitBlockingDeep ==
    /\ pc = "blocking"
    /\ args \in {[x |-> s, k |-> kk] :
                    s \in SeqsUpTo(TwoSamples, MaxDeepLen), kk \in 0..MaxK}
    /\ Idle

SpecBlockingDeep == InitBlockingDeep /\ [][NextBlocking]_vars

-----------------------------------------------------------------------------
(* smoothing_b, lines 19-72 *)

\* np.round of the fraction n/d (n >= 0, d > 0): to the nearest integer,
\* halves to the even one.
np_round(n, d) ==
    LET q == n \div d
        r == n % d
    IN  IF 2 * r < d THEN q
        ELSE IF 2 * r > d THEN q + 1
        ELSE IF q % 2 = 0 THEN q ELSE q + 1

\* int() of the fraction n/d (n >= 0, d > 0): truncation.
py_int(n, d) == n \div d

\* Line 56: width_dt = int(np.round(2*width / ddt)).
gaussian_width_dt(width, ddt) == np_round(2 * width, ddt)

\* A flat window whose half-width is rounded to the nearest integer.
flat_width_dt_rounded(width, ddt) == np_round(width, 2 * ddt) * 2 + 1

\* Line 63: width_dt = int(width / 2 / ddt)*2 + 1.
flat_width_dt(width, ddt) == py_int(width, 2 * ddt) * 2 + 1

\* Lines 59-61: np.exp(-np.arange(-width_dt, width_dt + 1)**2 * 1. /
\* (2 * (width/ddt) ** 2)).  A weight is kept as its exponent e, standing
\* for exp(e).
gaussian_window(wdt, width, ddt) ==
    [i \in 1..(2 * wdt + 1) |->
        LET kk == i - 1 - wdt
        IN  [exp |-> true_divide(Mul(FromInt(-(kk * kk)), FromInt(1)),
                                 Rat(2 * width * width, ddt * ddt))]]

\* Line 68: np.ones(width_dt).
np_ones(n) == [i \in 1..n |-> FromInt(1)]

\* Line 65: abs(used_width - width) > 1e-6*ddt, with used_width of line 64.
width_adjusted(wdt, width, ddt) == Abs(wdt * ddt - width) * 1000000 > ddt

\* A selection that takes every other name for the flat window.
window_kind_default_flat(w) == IF w = "gaussian" THEN "gaussian" ELSE "flat"

\* Lines 55, 62, 69: the branch taken for the window argument.
window_kind(w) ==
    IF w = "gaussian" THEN "gaussian"
    ELSE IF w = "flat" THEN "flat"
    ELSE "unknown"

Min(a, b) == IF a < b THEN a ELSE b

Max(a, b) == IF a > b THEN a ELSE b

\* np.convolve(a, v, mode='same') on arrays of n_a and n_v elements, as the
\* index pairs <<j, m>> (one-based) whose products a[j]*v[m] make up each
\* output sample.  numpy exchanges the arrays when v is the longer one,
\* gives the output the length n1 of the longer one and starts it at
\* sample n2 - 1 - floor(n2/2) of the full convolution (n2 the shorter).
convolve_same(n_a, n_v) ==
    LET n1 == Max(n_a, n_v)
        n2 == Min(n_a, n_v)
        off == n2 - 1 - (n2 \div 2)
    IN  [i \in 1..n1 |->
            LET t == (i - 1) + off
                js == SelectSeq(np_arange(n_a),
                                LAMBDA j : t - j >= 0 /\ t - j < n_v)
            IN  [q \in 1..Len(js) |-> <<js[q] + 1, t - js[q] + 1>>]]

\* window * 1. / sum(window) for a window of numbers (the flat window).
normalized(w) ==
    [i \in 1..Len(w) |-> true_divide(Mul(w[i], FromInt(1)), np_sum(w))]

\* Line 72: np.convolve(x, window * 1. / sum(window), mode='same').
\* np.convolve raises ValueError for an empty array.  For the flat window
\* the samples are numbers; for the gaussian window a sample is kept as the
\* terms [c, exp] of the sum  c * exp(e) / sum(window).  The result is
\* the exception or [val |-> the array].
np_convolve(arr, w, kind) ==
    IF Len(arr) = 0 \/ Len(w) = 0 THEN Exc("ValueError")
    ELSE LET pairs == convolve_same(Len(arr), Len(w))
         IN  IF kind = "flat"
             THEN LET v == normalized(w)
                  IN  [val |-> [i \in 1..Len(pairs) |->
                         np_sum([q \in 1..Len(pairs[i]) |->
                                   Mul(arr[pairs[i][q][1]], v[pairs[i][q][2]])])]]
             ELSE [val |-> [i \in 1..Len(pairs) |->
                     [q \in 1..Len(pairs[i]) |->
                         [c |-> arr[pairs[i][q][1]],
                          exp |-> w[pairs[i][q][2]].exp]]]]

\* np.convolve leaves its operands as they are.
after_np_convolve(a) == a

WindowNames == {"gaussian", "flat", "hann"}

InitSmoothing ==
    /\ pc = "smoothing"
    /\ args \in {[x |-> s, window |-> w, width |-> wd, ddt |-> dt] :
                    s \in SeqsUpTo(Samples, MaxLen), w \in WindowNames,
                    wd \in 0..MaxWidth, dt \in 1..MaxDdt}
    /\ Idle

\* Lines 55-61.
SmoothingGaussian ==
    /\ pc = "smoothing"
    /\ window_kind(args.window) = "gaussian"
    /\ width_dt' = gaussian_width_dt(args.width, args.ddt)
    /\ window' = gaussian_window(width_dt', args.width, args.ddt)
    /\ pc' = "convolve"
    /\ UNCHANGED <<args, mem, ret, err, x, time, variances_list, x_block,
                   info, indeces, neurons_fr>>

\* Lines 62-68.
SmoothingFlat ==
    /\ pc = "smoothing"
    /\ window_kind(args.window) = "flat"
    /\ width_dt' = flat_width_dt(args.width, args.ddt)
    /\ info' = width_adjusted(width_dt', args.width, args.ddt)
    /\ window' = np_ones(width_dt')
    /\ pc' = "convolve"
    /\ UNCHANGED <<args, mem, ret, err, x, time, variances_list, x_block,
                   indeces, neurons_fr>>

\* Lines 69-70: raise NotImplementedError.
SmoothingUnknown ==
    /\ pc = "smoothing"
    /\ window_kind(args.window) = "unknown"
    /\ pc' = "raised"
    /\ err' = "NotImplementedError"
    /\ UNCHANGED <<args, mem, ret, x, time, variances_list, x_block, window,
                   width_dt, info, indeces, neurons_fr>>

\* Line 72.
SmoothingConvolve ==
    /\ pc = "convolve"
    /\ LET y == np_convolve(mem.x, window, window_kind(args.window))
       IN  IF IsExc(y)
           THEN pc' = "raised" /\ err' = y.exc /\ ret' = ret
           ELSE pc' = "returned" /\ ret' = y.val /\ err' = err
    /\ mem' = [mem EXCEPT !.x = after_np_convolve(mem.x)]
    /\ UNCHANGED <<args, x, time, variances_list, x_block, window, width_dt,
                   info, indeces, neurons_fr>>

NextSmoothing ==
    SmoothingGaussian \/ SmoothingFlat \/ SmoothingUnknown \/ SmoothingConvolve

SpecSmoothing == InitSmoothing /\ [][NextSmoothing]_vars

-----------------------------------------------------------------------------
(* neurons_firing, lines 74-114 *)

SetMin(S) == CHOOSE m \in S : \A o \in S : m <= o

RECURSIVE SortedSeq(_)
SortedSeq(S) ==
    IF S = {} THEN <<>>
    ELSE <<SetMin(S)>> \o SortedSeq(S \ {SetMin(S)})

\* The distinct values in the order of their first appearance.
np_unique_first_seen(s) ==
    take(s, SelectSeq(np_arange(Len(s)),
                      LAMBDA j : \A q \in 1..j : s[q] # s[j + 1]))

\* np.unique: the distinct values, ascending.
np_unique(s) == SortedSeq({s[i] : i \in 1..Len(s)})

\* np.unique returns a new array and leaves its operand as it is.
after_np_unique(a) == a

\* t_spikes[neurons_i == ind]: the elements where the mask holds, in order.
masked(t, ni, ind) ==
    LET idx == SelectSeq(np_arange(Len(t)), LAMBDA j : ni[j + 1] = ind)
    IN  take(t, idx)

\* A window that includes its start.
in_window_half_open(spk, t0, t1) == spk >= t0 /\ spk < t1

\* Line 110: spk > time_start and spk < time_stop.
in_window(spk, t0, t1) == spk > t0 /\ spk < t1

\* Lines 110-111 for one neuron; time of line 106 is time_stop - time_start
\* seconds.
firing_rate_of(t, ni, ind, t0, t1) ==
    LET spikes == SelectSeq(masked(t, ni, ind),
                            LAMBDA spk : in_window(spk, t0, t1))
    IN  true_divide(FromInt(Len(spikes)), FromInt(t1 - t0))

SpikeTrains ==
    UNION {[t_spikes : [1..m -> 0..MaxTime], neurons_i : [1..m -> 0..MaxNeuron]] :
              m \in 0..MaxSpikes}

InitFiring ==
    /\ pc = "firing"
    /\ args \in {[t_spikes |-> st.t_spikes, neurons_i |-> st.neurons_i,
                  time_start |-> t0, time_stop |-> t1] :
                    st \in SpikeTrains,
                    t0 \in 0..MaxTime, t1 \in 0..MaxTime}
    /\ args.time_start < args.time_stop
    /\ Idle

\* Lines 105-108.
FiringEnter ==
    /\ pc = "firing"
    /\ indeces' = np_unique(mem.neurons_i)
    /\ mem' = [mem EXCEPT !.neurons_i = after_np_unique(mem.neurons_i)]
    /\ neurons_fr' = <<>>
    /\ pc' = "for"
    /\ UNCHANGED <<args, ret, err, x, time, variances_list, x_block, window,
                   width_dt, info>>

\* Lines 109-112: one iteration of "for ind in indeces".
FiringIter ==
    /\ pc = "for"
    /\ Len(neurons_fr) < Len(indeces)
    /\ LET ind == indeces[Len(neurons_fr) + 1]
           firing_rate == firing_rate_of(mem.t_spikes, mem.neurons_i, ind,
                                         args.time_start, args.time_stop)
       IN  neurons_fr' = Append(neurons_fr, firing_rate)
    /\ UNCHANGED <<pc, args, mem, ret, err, x, time, variances_list, x_block,
                   window, width_dt, info, indeces>>

\* Line 114.
FiringReturn ==
    /\ pc = "for"
    /\ Len(neurons_fr) >= Len(indeces)
    /\ ret' = neurons_fr
    /\ pc' = "returned"
    /\ UNCHANGED <<args, mem, err, x, time, variances_list, x_block, window,
                   width_dt, info, indeces, neurons_fr>>

NextFiring == FiringEnter \/ FiringIter \/ FiringReturn

SpecFiring == InitFiring /\ [][NextFiring]_vars

-----------------------------------------------------------------------------
(* A call of any of the four functions *)

InitAll == InitVariance \/ InitBlocking \/ InitSmoothing \/ InitFiring

NextAll == NextVariance \/ NextBlocking \/ NextSmoothing \/ NextFiring

SpecAll == InitAll /\ [][NextAll]_vars

-----------------------------------------------------------------------------
(* Properties *)

RECURSIVE IntSumFrom(_, _)
IntSumFrom(s, i) == IF i > Len(s) THEN 0 ELSE s[i] + IntSumFrom(s, i + 1)

\* The input samples as integers (they are drawn from 0..MaxVal).
AsInts(s) == [i \in 1..Len(s) |-> s[i].n]

\* N^2 * sum_i (a_i - mean(a))^2 for integers a: sum_i (N*a_i - S)^2.
ScaledSqDev(a) ==
    LET N == Len(a)
        S == IntSumFrom(a, 1)
    IN  IntSumFrom([i \in 1..N |-> (N * a[i] - S) * (N * a[i] - S)], 1)

\* C1: for a sequence of N >= 2 samples variance returns
\* sum_i (x_i - mean(x))^2 / (N*(N-1)); variance([1,1,1,1]) = 0 and
\* variance([0,2]) = 1.  (Stated without division: the returned fraction
\* n/d satisfies n * N^3 * (N-1) = d * sum_i (N*x_i - sum(x))^2.)
C1_VarianceFormula ==
    (pc = "returned" /\ Len(args.x) >= 2) =>
        LET N == Len(args.x)
        IN  /\ ~IsExc(ret)
            /\ ret.d > 0
            /\ ret.n * (N * N * N * (N - 1)) = ret.d * ScaledSqDev(AsInts(args.x))
            /\ (AsInts(args.x) = <<1, 1, 1, 1>> => ret = FromInt(0))
            /\ (AsInts(args.x) = <<0, 2>> => ret = FromInt(1))

C1_Witness ==
    pc = "returned" /\ AsInts(args.x) = <<0, 2>> /\ ret = FromInt(1)

\* C2 (as amended): variance of fewer than 2 samples raises nothing: it
\* returns nan, the result of the division 0.0/0.
C2_VarianceShortReturnsNaN ==
    (pc # "variance" /\ Len(args.x) < 2) =>
        (pc = "returned" /\ err = "none" /\ IsNaN(ret))

C2_Witness ==
    pc = "returned" /\ Len(args.x) = 1 /\ IsNaN(ret)

\* C2 (as claimed): variance of fewer than 2 samples fails with an error
\* and returns no value.
C2_VarianceShortRaises ==
    (pc # "variance" /\ Len(args.x) < 2) =>
        (pc = "raised" /\ err # "none" /\ ret = NoValue)

\* C3: blocking(x, k) returns a list of exactly k elements, whatever the
\* length of x; the list is empty for k = 0.
C3_BlockingReturnsK ==
    /\ pc \in {"blocking", "loop", "returned"}
    /\ pc = "returned" =>
        /\ Len(ret) = args.k
        /\ (args.k = 0 => ret = <<>>)

\* 2^j
RECURSIVE Pow2(_)
Pow2(j) == IF j = 0 THEN 1 ELSE 2 * Pow2(j - 1)

C3_Witness ==
    /\ pc = "returned"
    /\ args.k > 0
    /\ Len(args.x) < Pow2(args.k)
    /\ Len(ret) = args.k

\* C4: an iteration of blocking on a sequence x of length N (the last sample
\* dropped when N is odd) makes the blocked sequence of length floor(N/2)
\* whose element i is (x[2i] + x[2i+1]) / 2, appends the variance of that
\* blocked sequence, and continues with the blocked sequence as x.
C4_BlockingIteration ==
    [][(pc = "loop" /\ time' = time + 1) =>
        /\ Len(x') = Len(x) \div 2
        /\ \A i \in 1..Len(x') :
              x'[i] = Mul(Add(x[2 * i - 1], x[2 * i]), Rat(1, 2))
        /\ x_block' = x'
        /\ variances_list' = Append(variances_list, variance(x'))]_vars

C4_Witness ==
    /\ pc = "loop"
    /\ time = 1
    /\ Len(args.x) = 3
    /\ args.x[1] # args.x[2]
    /\ Len(x) = 1
    /\ Len(variances_list) = 1

\* ceil(n / 2)
CeilHalf(n) == (n + 1) \div 2

\* C5: in the loop of blocking the length of x after an iteration is at most
\* ceil(previous length / 2), it never grows, and once 0 it stays 0.
C5_BlockingLengths ==
    [][pc = "loop" =>
        /\ Len(x') <= Len(x)
        /\ (time' = time + 1 => Len(x') <= CeilHalf(Len(x)))
        /\ (Len(x) = 0 => Len(x') = 0)]_vars

C5_Witness ==
    /\ pc = "loop"
    /\ time = 3
    /\ Len(args.x) = 3
    /\ Len(variances_list) = 3
    /\ Len(x) = 0

\* C6: blocking never raises: an iteration whose blocked sequence has fewer
\* than 2 samples completes and appends nan, and the loop still runs k times.
C6_BlockingNeverRaises ==
    /\ pc # "raised"
    /\ err = "none"
    /\ (pc = "loop" /\ time >= 1 /\ Len(x_block) < 2) =>
          (Len(variances_list) = time /\ IsNaN(variances_list[time]))
    /\ pc = "returned" => (time = args.k /\ Len(ret) = args.k)

C6_Witness ==
    /\ pc = "returned"
    /\ Len(args.x) = 2
    /\ args.k = 3
    /\ IsNaN(ret[1]) /\ IsNaN(ret[2]) /\ IsNaN(ret[3])

\* C7: smoothing_b returns a signal of the length of x, for every x, kernel
\* and width, also when the window has more samples than x.
C7_SmoothingSameLength ==
    pc = "returned" => Len(ret) = Len(args.x)

\* C8 (as amended): the flat window has 2*m + 1 samples where m is
\* width/2/ddt truncated to an integer (2*m*ddt <= width < 2*(m+1)*ddt); the
\* length is odd and all weights are equal.
C8_FlatWindowTruncated ==
    (args.window = "flat" /\ pc # "smoothing") =>
        /\ \E m \in 0..MaxWidth :
              /\ Len(window) = 2 * m + 1
              /\ 2 * m * args.ddt <= args.width
              /\ args.width < 2 * (m + 1) * args.ddt
        /\ width_dt = Len(window)
        /\ Len(window) % 2 = 1
        /\ \A i, j \in 1..Len(window) : window[i] = window[j]

C8_Witness ==
    /\ pc = "convolve"
    /\ args.window = "flat"
    /\ args.width = 3
    /\ args.ddt = 2
    /\ Len(window) = 1

\* C8 (as claimed): the flat window has 2*round(width/2/ddt) + 1 samples
\* (round to nearest); the length is odd and all weights are equal.
C8_FlatWindowRounded ==
    (args.window = "flat" /\ pc # "smoothing") =>
        /\ Len(window) = 2 * np_round(args.width, 2 * args.ddt) + 1
        /\ Len(window) % 2 = 1
        /\ \A i, j \in 1..Len(window) : window[i] = window[j]

\* C9: smoothing_b with a window name other than 'gaussian' and 'flat'
\* raises NotImplementedError and returns no convolution result.
C9_UnknownWindowRaises ==
    (args.window \notin {"gaussian", "flat"} /\ pc # "smoothing") =>
        /\ pc = "raised"
        /\ err = "NotImplementedError"
        /\ ret = NoValue
        /\ window = <<>>

C9_Witness ==
    /\ pc = "raised"
    /\ args.window = "hann"
    /\ err = "NotImplementedError"
    /\ ret = NoValue

\* The number of spikes of neuron ind with start < t < stop.
CountOpen(ind) ==
    Cardinality({q \in 1..Len(args.t_spikes) :
                    /\ args.neurons_i[q] = ind
                    /\ args.t_spikes[q] > args.time_start
                    /\ args.t_spikes[q] < args.time_stop})

\* The number of spikes of neuron ind with start <= t < stop.
CountHalfOpen(ind) ==
    Cardinality({q \in 1..Len(args.t_spikes) :
                    /\ args.neurons_i[q] = ind
                    /\ args.t_spikes[q] >= args.time_start
                    /\ args.t_spikes[q] < args.time_stop})

\* Every neuron of neurons_i has an entry in the loop's index list.
AllPresent ==
    \A q \in 1..Len(args.neurons_i) :
        \E p \in 1..Len(indeces) : indeces[p] = args.neurons_i[q]

\* C10 (as amended): for every neuron index present in neurons_i,
\* neurons_firing returns the number of that neuron's spikes strictly between
\* time_start and time_stop, divided by time_stop - time_start; a spike at
\* time_start or at time_stop is not counted.
C10_FiringRateOpenWindow ==
    pc = "returned" =>
        /\ AllPresent
        /\ Len(ret) = Len(indeces)
        /\ \A p \in 1..Len(indeces) :
              /\ ret[p].d > 0
              /\ ret[p].n * (args.time_stop - args.time_start)
                    = ret[p].d * CountOpen(indeces[p])

C10_Witness ==
    /\ pc = "returned"
    /\ args.neurons_i = <<0, 0, 0>>
    /\ args.t_spikes = <<0, 1, 2>>
    /\ args.time_start = 0
    /\ args.time_stop = 2
    /\ ret = <<Rat(1, 2)>>

\* C10 (as claimed): the window is half-open, [time_start, time_stop): a
\* spike at time_start is counted, a spike at time_stop is not.
C10_FiringRateHalfOpenWindow ==
    pc = "returned" =>
        /\ AllPresent
        /\ Len(ret) = Len(indeces)
        /\ \A p \in 1..Len(indeces) :
              /\ ret[p].d > 0
              /\ ret[p].n * (args.time_stop - args.time_start)
                    = ret[p].d * CountHalfOpen(indeces[p])

\* The neuron indices that occur in neurons_i.
Firing == {args.neurons_i[q] : q \in 1..Len(args.neurons_i)}

\* The position of neuron n among the firing neurons in ascending order.
RankOf(n) == Cardinality({m \in Firing : m < n}) + 1

\* C11: neurons_firing returns one entry per distinct value of neurons_i, in
\* ascending order of the neuron index whatever the order of the spikes; a
\* neuron of neurons_i without a spike inside the window has rate 0, and a
\* neuron that is not in neurons_i has no entry.
C11_OneEntryPerNeuronAscending ==
    pc = "returned" =>
        /\ Len(ret) = Cardinality(Firing)
        /\ \A n \in Firing :
              /\ ret[RankOf(n)].d > 0
              /\ ret[RankOf(n)].n * (args.time_stop - args.time_start)
                    = ret[RankOf(n)].d * CountOpen(n)
              /\ (CountOpen(n) = 0 => ret[RankOf(n)] = FromInt(0))

C11_Witness ==
    /\ pc = "returned"
    /\ args.neurons_i = <<1, 0, 1>>
    /\ args.t_spikes = <<1, 2, 1>>
    /\ args.time_start = 0
    /\ args.time_stop = 2
    /\ ret = <<FromInt(0), FromInt(1)>>

\* C12: variance, blocking, smoothing_b and neurons_firing leave the arrays
\* they are passed unchanged: at every point of a call, and after it, the
\* caller's arrays have the length and the elements they were passed with,
\* also while blocking re-assigns its local x.
C12_InputsUnchanged ==
    /\ DOMAIN mem = DOMAIN passed_arrays(args)
    /\ \A f \in DOMAIN mem :
          /\ Len(mem[f]) = Len(args[f])
          /\ \A i \in 1..Len(mem[f]) : mem[f][i] = args[f][i]

C12_Witness ==
    /\ pc = "returned"
    /\ "k" \in DOMAIN args
    /\ args.k = 3
    /\ Len(args.x) = 4
    /\ Len(x) = 0
    /\ Len(ret) = 3
    /\ mem.x = args.x

\* The sum of the integers a[lo..hi].
RECURSIVE IntSumRange(_, _, _)
IntSumRange(a, lo, hi) ==
    IF lo > hi THEN 0 ELSE a[lo] + IntSumRange(a, lo + 1, hi)

\* The means of the floor(Len(a) / 2^j) first blocks of 2^j consecutive
\* integers of a; the samples after the last whole block are left out.
BlockMeans(a, j) ==
    [i \in 1..(Len(a) \div Pow2(j)) |->
        Rat(IntSumRange(a, (i - 1) * Pow2(j) + 1, i * Pow2(j)), Pow2(j))]

\* C13: after j >= 1 iterations of blocking on an input of length L the
\* current sequence has floor(L / 2^j) elements, element i being the mean of
\* the original samples x[i*2^j .. (i+1)*2^j - 1]; the j-th estimate is the
\* variance of these block means, so the samples from index
\* floor(L / 2^j) * 2^j on (the tail) contribute to no estimate from the
\* j-th on.
C13_BlocksOfOriginalSamples ==
    (pc \in {"loop", "returned"} /\ time >= 1) =>
        /\ Len(x) = Len(args.x) \div Pow2(time)
        /\ \A i \in 1..Len(x) :
              /\ x[i].d > 0
              /\ x[i].n * Pow2(time)
                    = x[i].d * IntSumRange(AsInts(args.x),
                                           (i - 1) * Pow2(time) + 1,
                                           i * Pow2(time))
        /\ Len(variances_list) = time
        /\ \A j \in 1..time :
              variances_list[j] = variance(BlockMeans(AsInts(args.x), j))

C13_Witness ==
    /\ pc = "loop"
    /\ time = 2
    /\ AsInts(args.x) = <<1, 0, 0, 0, 1, 1>>
    /\ x = <<Rat(1, 4)>>
    /\ Len(variances_list) = 2

====
